---- MODULE Spec2Model ----
(***************************************************************************)
(* Model of bulk_upload_to_library.py: the asynchronous upload / rename    *)
(* pipeline run by asyncio.run(upload_datasets(...)).                      *)
(*                                                                         *)
(* One event loop runs the coroutine upload_datasets (the main task) and   *)
(* num_workers dataset_renamer tasks.  A task keeps the loop from the      *)
(* moment it is dispatched until it suspends in an await that really       *)
(* blocks (queue.get on an empty queue, queue.join with unfinished items)  *)
(* or ends.  The Galaxy calls are plain synchronous calls.                 *)
(***************************************************************************)
EXTENDS Integers, Sequences, FiniteSets, TLC

\* ------------------------------------------------------------------ bounds
MaxWorkers == 3
MaxFiles == 3
MaxHead == 3
MaxStem == 2

\* ------------------------------------------------------------- input files
\* A file is its name (a tuple of characters) and its leading bytes.
GzFile == [name |-> <<"a", ".", "f", "a", "s", "t", "q", ".", "g", "z">>,
           head |-> <<31, 139, 8>>]
Bz2File == [name |-> <<"b", ".", "f", "a", "s", "t", "q", ".", "b", "z", "2">>,
            head |-> <<66, 90, 104>>]
PlainFile == [name |-> <<"c", ".", "f", "a", "s", "t", "q">>,
              head |-> <<64, 83>>]
MisnamedFile == [name |-> <<"d", ".", "f", "a", "s", "t", "q", ".", "g", "z">>,
                 head |-> <<64, 83, 82>>]
Files == {GzFile, Bz2File, PlainFile, MisnamedFile}

\* The lists glob can return: distinct paths, in any order.
RECURSIVE ListsOfLen(_)
ListsOfLen(n) ==
    IF n = 0 THEN {<<>>}
    ELSE {Append(l, f) : l \in ListsOfLen(n - 1), f \in Files}

Distinct(l) == \A a, b \in DOMAIN l : a # b => l[a] # l[b]

FileLists == {l \in UNION {ListsOfLen(n) : n \in 0..MaxFiles} : Distinct(l)}

\* Leading bytes: every byte string of up to MaxHead bytes over the bytes
\* of the two magic numbers and one other byte.
ByteValues == {0, 31, 66, 90, 104, 139}

RECURSIVE SeqsOfLen(_, _)
SeqsOfLen(S, n) ==
    IF n = 0 THEN {<<>>}
    ELSE {Append(q, x) : q \in SeqsOfLen(S, n - 1), x \in S}

SeqsUpTo(S, n) == UNION {SeqsOfLen(S, k) : k \in 0..n}

ByteStrings == SeqsUpTo(ByteValues, MaxHead)

SniffNames == {GzFile.name, Bz2File.name, PlainFile.name}

SniffFiles == {[name |-> nm, head |-> h] : nm \in SniffNames,
                                          h \in ByteStrings}

\* File names the pattern *.fastq* matches: a stem, '.fastq', a suffix.
SRRStem == <<"S", "R", "R", "1", "1", "6", "5", "2", "3", "6", "_", "1">>
SampleStem == <<"s", "a", "m", "p", "l", "e">>
StemChars == {"s", "."}
Stems == SeqsUpTo(StemChars, MaxStem)
             \cup {SRRStem, SampleStem, <<".", "f", "a", "s", "t">>}
Suffixes == {<<>>, <<".", "g", "z">>, <<".", "b", "z", "2">>,
             <<".", "f", "a", "s", "t", "q">>,
             <<"s", ".", "f", "a", "s", "t", "q", ".", "g", "z">>}
GlobNames == {st \o <<".", "f", "a", "s", "t", "q">> \o su :
                  st \in Stems, su \in Suffixes}

NameFiles == {[name |-> nm, head |-> GzFile.head] : nm \in GlobNames}

\* ------------------------------------------------------------ pure helpers
Min(a, b) == IF a < b THEN a ELSE b
Max(a, b) == IF a > b THEN a ELSE b

\* file.read(n): at most n leading bytes
Read(bytes, n) == SubSeq(bytes, 1, Min(n, Len(bytes)))

\* Variant: only two bytes of the bzip2 magic are compared.
detect_compression_ShortMagic(head) ==
    IF Read(head, 2) = <<31, 139>> THEN "GZIP"
    ELSE IF Read(head, 2) = <<66, 90>> THEN "BZIP2"
    ELSE "NONE"

detect_compression(head) ==
    IF Read(head, 2) = <<31, 139>> THEN "GZIP"
    ELSE IF Read(head, 3) = <<66, 90, 104>> THEN "BZIP2"
    ELSE "NONE"

\* Variant: the labels of the two compressed formats are exchanged.
FormatOf_Swapped(compression_type) ==
    IF compression_type = "GZIP" THEN "fastqsanger.bz2"
    ELSE IF compression_type = "BZIP2" THEN "fastqsanger.gz"
    ELSE "fastqsanger"

FormatOf(compression_type) ==
    IF compression_type = "GZIP" THEN "fastqsanger.gz"
    ELSE IF compression_type = "BZIP2" THEN "fastqsanger.bz2"
    ELSE "fastqsanger"

DotFastq == <<".", "f", "a", "s", "t", "q">>

OccursAt(s, sub, p) ==
    /\ p + Len(sub) <= Len(s)
    /\ \A k \in 1..Len(sub) : s[p + k] = sub[k]

\* Variant: the last occurrence is returned (rfind).
Find_Last(s, sub) ==
    LET hits == {p \in 0..Len(s) : OccursAt(s, sub, p)}
    IN  IF hits = {} THEN -1
        ELSE CHOOSE p \in hits : \A q \in hits : p >= q

\* str.find: 0-based index of the first occurrence, -1 when there is none
Find(s, sub) ==
    LET hits == {p \in 0..Len(s) : OccursAt(s, sub, p)}
    IN  IF hits = {} THEN -1
        ELSE CHOOSE p \in hits : \A q \in hits : p <= q

\* s[:pos] with Python's treatment of a negative or too large pos
SliceTo(s, pos) ==
    IF pos < 0 THEN SubSeq(s, 1, Max(Len(s) + pos, 0))
    ELSE SubSeq(s, 1, Min(pos, Len(s)))

CleanName(name) == SliceTo(name, Find(name, DotFastq))

\* ------------------------------------------------------------------- tasks
MainTask == [kind |-> "main", n |-> 0]
WorkerTask(w) == [kind |-> "worker", n |-> w]
StopCallback == [kind |-> "stop", n |-> 0]
NoTask == [kind |-> "none", n |-> 0]

NoInfo == [library_id |-> 0, dataset_id |-> 0, new_name |-> <<>>]

VARIABLES
    num_workers,      \* argument num_workers
    fastq_filenames,  \* what glob returns
    path_ok,          \* datasets_path.exists() and datasets_path.is_dir()
    pc,               \* position of upload_datasets
    main_exc,         \* the exception upload_datasets ended with
    i,                \* files the for loop has finished with
    create_calls,     \* calls of create_library
    libraries,        \* libraries created on the server
    library_id,
    upload_details,   \* dataset id returned by the upload in hand
    uploads,          \* history of upload calls
    queue,            \* asyncio.Queue: the items
    unfinished,       \* asyncio.Queue: _unfinished_tasks
    getters,          \* asyncio.Queue: tasks suspended in get()
    enqueued,         \* history of queue.put
    wpc,              \* position of each dataset_renamer
    info,             \* the rename_info each dataset_renamer holds
    dequeued,         \* history of queue.get results
    waits,            \* history of wait_for_dataset calls
    renames,          \* history of update_library_dataset calls
    done,             \* history of queue.task_done
    current,          \* the task that holds the event loop
    ready,            \* the event loop's FIFO of callbacks to run
    stopped,          \* the event loop has stopped
    args,             \* the command line: credential options, datasets_path
    parsec_config,    \* ~/.parsec.yml
    cli_pc,           \* position of the __main__ block
    exit_status,      \* status the program has exited with, 0 while it runs
    usage_printed,    \* a usage message has been printed
    gi                \* the GalaxyInstance built by get_galaxy_instance

vars == <<num_workers, fastq_filenames, path_ok, pc, main_exc, i,
          create_calls, libraries, library_id, upload_details, uploads,
          queue, unfinished, getters, enqueued, wpc, info, dequeued, waits,
          renames, done, current, ready, stopped, args, parsec_config,
          cli_pc, exit_status, usage_printed, gi>>

cliVars == <<args, parsec_config, cli_pc, exit_status, usage_printed, gi>>
inputs == <<num_workers, fastq_filenames, path_ok, cliVars>>
mainVars == <<pc, main_exc, i, create_calls, libraries, library_id,
              upload_details, uploads>>
queueVars == <<queue, unfinished, getters, enqueued>>
workerVars == <<wpc, info, dequeued, waits, renames, done>>
loopVars == <<current, ready, stopped>>

\* range(num_workers): empty when num_workers <= 0
Workers == 1..num_workers

\* An option of the command line: absent (None) or given with a value.
NotGiven == [given |-> FALSE, value |-> ""]
Given(v) == [given |-> TRUE, value |-> v]

\* truth value of an option in an if: None and '' are false
Truthy(o) == o.given /\ o.value # ""

NoConfig == [exists |-> FALSE, default |-> "", profiles |-> {}]
NoClient == [source |-> "none", url |-> "", key |-> ""]

\* The __main__ block has got to asyncio.run with URL and key given.
CliPassed ==
    /\ args = [parsec_galaxy_instance |-> NotGiven,
               galaxy_url |-> Given("https://galaxy"),
               galaxy_key |-> Given("secret"),
               datasets_path |-> "dir"]
    /\ parsec_config = NoConfig
    /\ cli_pc = "running"
    /\ exit_status = 0
    /\ usage_printed = FALSE
    /\ gi = [source |-> "args", url |-> "https://galaxy", key |-> "secret"]

Init ==
    /\ num_workers \in -1..MaxWorkers
    /\ fastq_filenames \in FileLists
    /\ path_ok \in BOOLEAN
    /\ pc = "start"
    /\ main_exc = "none"
    /\ i = 0
    /\ create_calls = 0
    /\ libraries = 0
    /\ library_id = 0
    /\ upload_details = 0
    /\ uploads = <<>>
    /\ queue = <<>>
    /\ unfinished = 0
    /\ getters = <<>>
    /\ enqueued = <<>>
    /\ wpc = [w \in Workers |-> "uncreated"]
    /\ info = [w \in Workers |-> NoInfo]
    /\ dequeued = <<>>
    /\ waits = <<>>
    /\ renames = <<>>
    /\ done = <<>>
    /\ current = MainTask
    /\ ready = <<>>
    /\ stopped = FALSE
    /\ CliPassed

\* ------------------------------------------------------- upload_datasets
\* Variant: the loop stops as soon as upload_datasets has raised.
MainRaises_StopsAtOnce(exc) ==
    /\ pc' = "raised"
    /\ main_exc' = exc
    /\ current' = NoTask
    /\ ready' = <<StopCallback>> \o ready

\* An exception leaves upload_datasets: the main task ends and the loop's
\* stop callback is queued behind whatever is already ready.
MainRaises(exc) ==
    /\ pc' = "raised"
    /\ main_exc' = exc
    /\ current' = NoTask
    /\ ready' = Append(ready, StopCallback)

RECURSIVE WorkerTasks(_)
WorkerTasks(n) ==
    IF n <= 0 THEN <<>> ELSE Append(WorkerTasks(n - 1), WorkerTask(n))

\* queue = asyncio.Queue(); workers = [asyncio.create_task(...) ...]
CreateWorkers ==
    /\ current = MainTask
    /\ pc = "start"
    /\ pc' = "validate"
    /\ wpc' = [w \in Workers |-> "new"]
    /\ ready' = ready \o WorkerTasks(num_workers)
    /\ UNCHANGED <<inputs, main_exc, i, create_calls, libraries, library_id,
                   upload_details, uploads, queueVars, info, dequeued, waits,
                   renames, done, current, stopped>>

\* Variant: the directory check is missing.
ValidatePath_NoCheck ==
    /\ current = MainTask
    /\ pc = "validate"
    /\ pc' = "create_library"
    /\ UNCHANGED <<inputs, main_exc, i, create_calls, libraries, library_id,
                   upload_details, uploads, queueVars, workerVars, loopVars>>

\* if not datasets_path.exists() or not datasets_path.is_dir(): raise IOError
ValidatePath ==
    /\ current = MainTask
    /\ pc = "validate"
    /\ IF path_ok
       THEN /\ pc' = "create_library"
            /\ UNCHANGED <<main_exc, current, ready>>
       ELSE MainRaises("IOError")
    /\ UNCHANGED <<inputs, i, create_calls, libraries, library_id,
                   upload_details, uploads, queueVars, workerVars, stopped>>

\* library_id = create_library(library_name, gi)
CreateLibrary ==
    /\ current = MainTask
    /\ pc = "create_library"
    /\ create_calls' = create_calls + 1
    /\ \E ok \in BOOLEAN :
        IF ok
        THEN /\ libraries' = libraries + 1
             /\ library_id' = libraries + 1
             /\ pc' = "upload"
             /\ UNCHANGED <<main_exc, current, ready>>
        ELSE /\ MainRaises("create_library")
             /\ UNCHANGED <<libraries, library_id>>
    /\ UNCHANGED <<inputs, i, upload_details, uploads, queueVars, workerVars,
                   stopped>>

OkUploads == {k \in DOMAIN uploads : uploads[k].ok}

\* the upload call raised
UploadFailed == MainRaises("upload")

\* Variant: a failed upload is skipped and the loop goes on.
Upload_SkipFailed ==
    /\ current = MainTask
    /\ pc = "upload"
    /\ i < Len(fastq_filenames)
    /\ LET fastq_file == fastq_filenames[i + 1]
           compression_type == detect_compression(fastq_file.head)
           format == FormatOf(compression_type)
           id == Cardinality(OkUploads) + 1
       IN  \E ok \in BOOLEAN :
            /\ uploads' = Append(uploads,
                                 [file |-> fastq_file,
                                  compression_type |-> compression_type,
                                  format |-> format,
                                  library_id |-> library_id, ok |-> ok,
                                  id |-> IF ok THEN id ELSE 0])
            /\ IF ok
               THEN /\ upload_details' = id
                    /\ pc' = "put"
                    /\ UNCHANGED i
               ELSE /\ i' = i + 1
                    /\ UNCHANGED <<upload_details, pc>>
    /\ UNCHANGED <<inputs, main_exc, create_calls, libraries, library_id,
                   queueVars, workerVars, loopVars>>

\* detect_compression, the format label and upload_file_from_local_path
Upload ==
    /\ current = MainTask
    /\ pc = "upload"
    /\ i < Len(fastq_filenames)
    /\ LET fastq_file == fastq_filenames[i + 1]
           compression_type == detect_compression(fastq_file.head)
           format == FormatOf(compression_type)
           id == Cardinality(OkUploads) + 1
       IN  \E ok \in BOOLEAN :
            /\ uploads' = Append(uploads,
                                 [file |-> fastq_file,
                                  compression_type |-> compression_type,
                                  format |-> format,
                                  library_id |-> library_id, ok |-> ok,
                                  id |-> IF ok THEN id ELSE 0])
            /\ IF ok
               THEN /\ upload_details' = id
                    /\ pc' = "put"
                    /\ UNCHANGED <<main_exc, current, ready>>
               ELSE /\ UploadFailed
                    /\ UNCHANGED upload_details
    /\ UNCHANGED <<inputs, i, create_calls, libraries, library_id, queueVars,
                   workerVars, stopped>>

\* Variant: the item is dropped instead of queued.
QueuePut_Dropped(item) ==
    UNCHANGED <<queue, unfinished, enqueued, ready, getters>>

\* Queue.put_nowait: append, count the item, wake the first waiting getter
QueuePut(item) ==
    /\ queue' = Append(queue, item)
    /\ unfinished' = unfinished + 1
    /\ enqueued' = Append(enqueued, item)
    /\ IF getters # <<>>
       THEN /\ ready' = Append(ready, Head(getters))
            /\ getters' = Tail(getters)
       ELSE UNCHANGED <<ready, getters>>

\* Variant: put gives the event loop away before the loop goes on.
Put_Yields ==
    /\ current = MainTask
    /\ pc = "put"
    /\ LET fastq_file == fastq_filenames[i + 1]
           dataset_name == CleanName(fastq_file.name)
           item == [library_id |-> library_id,
                    dataset_id |-> upload_details,
                    new_name |-> dataset_name]
       IN  /\ queue' = Append(queue, item)
           /\ unfinished' = unfinished + 1
           /\ enqueued' = Append(enqueued, item)
    /\ i' = i + 1
    /\ upload_details' = 0
    /\ pc' = "upload"
    /\ current' = NoTask
    /\ ready' = Append(ready, MainTask)
    /\ UNCHANGED <<inputs, main_exc, create_calls, libraries, library_id,
                   uploads, workerVars, getters, stopped>>

\* the clean name and await queue.put(rename_info(...)); the queue is
\* unbounded, so put does not suspend
Put ==
    /\ current = MainTask
    /\ pc = "put"
    /\ LET fastq_file == fastq_filenames[i + 1]
           dataset_name == CleanName(fastq_file.name)
       IN  QueuePut([library_id |-> library_id,
                     dataset_id |-> upload_details,
                     new_name |-> dataset_name])
    /\ i' = i + 1
    /\ upload_details' = 0
    /\ pc' = "upload"
    /\ UNCHANGED <<inputs, main_exc, create_calls, libraries, library_id,
                   uploads, workerVars, current, stopped>>

\* Variant: join returns at once, whatever is unfinished.
Join_NoWait ==
    /\ current = MainTask
    /\ pc = "upload"
    /\ i = Len(fastq_filenames)
    /\ pc' = "cancel"
    /\ UNCHANGED <<inputs, main_exc, i, create_calls, libraries, library_id,
                   upload_details, uploads, queueVars, workerVars, loopVars>>

\* await queue.join(): suspends only while items are unfinished
Join ==
    /\ current = MainTask
    /\ pc = "upload"
    /\ i = Len(fastq_filenames)
    /\ IF unfinished > 0
       THEN /\ pc' = "join"
            /\ current' = NoTask
       ELSE /\ pc' = "cancel"
            /\ UNCHANGED current
    /\ UNCHANGED <<inputs, main_exc, i, create_calls, libraries, library_id,
                   upload_details, uploads, queueVars, workerVars, ready,
                   stopped>>

\* Variant: join gives up waiting when nothing is left to run.
JoinReturns_TimesOut ==
    /\ pc = "join"
    /\ \/ current = MainTask
       \/ current = NoTask /\ ready = <<>> /\ ~stopped
    /\ pc' = "cancel"
    /\ current' = MainTask
    /\ UNCHANGED <<inputs, main_exc, i, create_calls, libraries, library_id,
                   upload_details, uploads, queueVars, workerVars, ready,
                   stopped>>

\* the main task is resumed from queue.join()
JoinReturns ==
    /\ current = MainTask
    /\ pc = "join"
    /\ pc' = "cancel"
    /\ UNCHANGED <<inputs, main_exc, i, create_calls, libraries, library_id,
                   upload_details, uploads, queueVars, workerVars, loopVars>>

IsWorkerTask(t) == t.kind = "worker"
NotWorkerTask(t) == ~IsWorkerTask(t)

\* for worker in workers: worker.cancel(); then upload_datasets returns
CancelWorkers ==
    /\ current = MainTask
    /\ pc = "cancel"
    /\ wpc' = [w \in Workers |->
                 IF wpc[w] \in {"failed"} THEN wpc[w] ELSE "cancelled"]
    /\ getters' = <<>>
    /\ pc' = "done"
    /\ current' = NoTask
    /\ ready' = Append(SelectSeq(ready, NotWorkerTask), StopCallback)
    /\ UNCHANGED <<inputs, main_exc, i, create_calls, libraries, library_id,
                   upload_details, uploads, queue, unfinished, enqueued, info,
                   dequeued, waits, renames, done, stopped>>

\* ------------------------------------------------------- dataset_renamer
\* Variant: get returns the first item and leaves it in the queue.
WorkerGet_Peek(w) ==
    /\ current = WorkerTask(w)
    /\ wpc[w] \in {"new", "get"}
    /\ IF queue = <<>>
       THEN /\ getters' = Append(getters, WorkerTask(w))
            /\ wpc' = [wpc EXCEPT ![w] = "get"]
            /\ current' = NoTask
            /\ UNCHANGED <<queue, info, dequeued>>
       ELSE /\ info' = [info EXCEPT ![w] = Head(queue)]
            /\ queue' = queue
            /\ dequeued' = Append(dequeued,
                                  [worker |-> w,
                                   dataset_id |-> Head(queue).dataset_id])
            /\ wpc' = [wpc EXCEPT ![w] = "wait"]
            /\ UNCHANGED <<getters, current>>
    /\ UNCHANGED <<inputs, mainVars, unfinished, enqueued, waits, renames,
                   done, ready, stopped>>

\* Variant: get returns the newest item instead of the oldest.
WorkerGet_Last(w) ==
    /\ current = WorkerTask(w)
    /\ wpc[w] \in {"new", "get"}
    /\ IF queue = <<>>
       THEN /\ getters' = Append(getters, WorkerTask(w))
            /\ wpc' = [wpc EXCEPT ![w] = "get"]
            /\ current' = NoTask
            /\ UNCHANGED <<queue, info, dequeued>>
       ELSE /\ info' = [info EXCEPT ![w] = queue[Len(queue)]]
            /\ queue' = SubSeq(queue, 1, Len(queue) - 1)
            /\ dequeued' = Append(dequeued,
                                  [worker |-> w,
                                   dataset_id |->
                                       queue[Len(queue)].dataset_id])
            /\ wpc' = [wpc EXCEPT ![w] = "wait"]
            /\ UNCHANGED <<getters, current>>
    /\ UNCHANGED <<inputs, mainVars, unfinished, enqueued, waits, renames,
                   done, ready, stopped>>

\* (info) = await queue.get(): suspends while the queue is empty
WorkerGet(w) ==
    /\ current = WorkerTask(w)
    /\ wpc[w] \in {"new", "get"}
    /\ IF queue = <<>>
       THEN /\ getters' = Append(getters, WorkerTask(w))
            /\ wpc' = [wpc EXCEPT ![w] = "get"]
            /\ current' = NoTask
            /\ UNCHANGED <<queue, info, dequeued>>
       ELSE /\ info' = [info EXCEPT ![w] = Head(queue)]
            /\ queue' = Tail(queue)
            /\ dequeued' = Append(dequeued,
                                  [worker |-> w,
                                   dataset_id |-> Head(queue).dataset_id])
            /\ wpc' = [wpc EXCEPT ![w] = "wait"]
            /\ UNCHANGED <<getters, current>>
    /\ UNCHANGED <<inputs, mainVars, unfinished, enqueued, waits, renames,
                   done, ready, stopped>>

\* Variant: the failure of one worker brings the whole event loop down.
WorkerFails_StopsLoop(w) ==
    /\ wpc' = [wpc EXCEPT ![w] = "failed"]
    /\ current' = NoTask
    /\ stopped' = TRUE
    /\ UNCHANGED <<pc, main_exc, ready>>

\* a Galaxy call raised inside dataset_renamer: the task ends with the
\* exception, which nobody retrieves
WorkerFails(w) ==
    /\ wpc' = [wpc EXCEPT ![w] = "failed"]
    /\ current' = NoTask
    /\ UNCHANGED <<pc, main_exc, ready, stopped>>

\* Variant: a failed wait is ignored and the rename goes ahead.
WorkerWait_Ignored(w) ==
    /\ current = WorkerTask(w)
    /\ wpc[w] = "wait"
    /\ \E ok \in BOOLEAN :
        waits' = Append(waits, [worker |-> w,
                                library_id |-> info[w].library_id,
                                dataset_id |-> info[w].dataset_id,
                                ok |-> ok])
    /\ wpc' = [wpc EXCEPT ![w] = "rename"]
    /\ UNCHANGED <<inputs, mainVars, queueVars, info, dequeued, renames,
                   done, loopVars>>

\* gi.libraries.wait_for_dataset(info.library_id, info.dataset_id)
WorkerWait(w) ==
    /\ current = WorkerTask(w)
    /\ wpc[w] = "wait"
    /\ \E ok \in BOOLEAN :
        /\ waits' = Append(waits, [worker |-> w,
                                   library_id |-> info[w].library_id,
                                   dataset_id |-> info[w].dataset_id,
                                   ok |-> ok])
        /\ IF ok
           THEN /\ wpc' = [wpc EXCEPT ![w] = "rename"]
                /\ UNCHANGED <<pc, main_exc, current, ready, stopped>>
           ELSE WorkerFails(w)
    /\ UNCHANGED <<inputs, i, create_calls, libraries, library_id,
                   upload_details, uploads, queueVars, info, dequeued,
                   renames, done>>

\* gi.libraries.update_library_dataset(info.dataset_id, name=info.new_name)
WorkerRename(w) ==
    /\ current = WorkerTask(w)
    /\ wpc[w] = "rename"
    /\ \E ok \in BOOLEAN :
        /\ renames' = Append(renames, [worker |-> w,
                                       dataset_id |-> info[w].dataset_id,
                                       name |-> info[w].new_name,
                                       ok |-> ok])
        /\ IF ok
           THEN /\ wpc' = [wpc EXCEPT ![w] = "task_done"]
                /\ UNCHANGED <<pc, main_exc, current, ready, stopped>>
           ELSE WorkerFails(w)
    /\ UNCHANGED <<inputs, i, create_calls, libraries, library_id,
                   upload_details, uploads, queueVars, info, dequeued,
                   waits, done>>

\* Variant: the count goes down but join() is never woken.
QueueTaskDone_NoWake ==
    /\ unfinished' = unfinished - 1
    /\ UNCHANGED ready

\* Queue.task_done: count down; at zero set the event join() waits on
QueueTaskDone ==
    /\ unfinished' = unfinished - 1
    /\ IF unfinished - 1 = 0 /\ pc = "join"
       THEN ready' = Append(ready, MainTask)
       ELSE UNCHANGED ready

\* queue.task_done() and back to the top of the while loop
WorkerTaskDone(w) ==
    /\ current = WorkerTask(w)
    /\ wpc[w] = "task_done"
    /\ QueueTaskDone
    /\ done' = Append(done, info[w].dataset_id)
    /\ wpc' = [wpc EXCEPT ![w] = "get"]
    /\ UNCHANGED <<inputs, mainVars, queue, getters, enqueued, info,
                   dequeued, waits, renames, current, stopped>>

\* ------------------------------------------------------------ event loop
\* the loop runs the next ready task
Dispatch ==
    /\ current = NoTask
    /\ ~stopped
    /\ ready # <<>>
    /\ Head(ready) # StopCallback
    /\ current' = Head(ready)
    /\ ready' = Tail(ready)
    /\ UNCHANGED <<inputs, mainVars, queueVars, workerVars, stopped>>

\* the stop callback of the finished main task runs: the loop stops and
\* asyncio.run cancels the tasks that are left
LoopStops ==
    /\ current = NoTask
    /\ ~stopped
    /\ ready # <<>>
    /\ Head(ready) = StopCallback
    /\ stopped' = TRUE
    /\ ready' = <<>>
    /\ getters' = <<>>
    /\ wpc' = [w \in Workers |->
                 IF wpc[w] \in {"failed", "cancelled"} THEN wpc[w]
                 ELSE "shutdown"]
    /\ UNCHANGED <<inputs, mainVars, queue, unfinished, enqueued, info,
                   dequeued, waits, renames, done, current>>

Next ==
    \/ CreateWorkers
    \/ ValidatePath
    \/ CreateLibrary
    \/ Upload
    \/ Put
    \/ Join
    \/ JoinReturns
    \/ CancelWorkers
    \/ \E w \in Workers : WorkerGet(w)
    \/ \E w \in Workers : WorkerWait(w)
    \/ \E w \in Workers : WorkerRename(w)
    \/ \E w \in Workers : WorkerTaskDone(w)
    \/ Dispatch
    \/ LoopStops

Spec == Init /\ [][Next]_vars

\* The event loop keeps running what is ready and every call returns or
\* raises: no step that can be taken is postponed for ever.
FairSpec == Spec /\ WF_vars(Next)

\* upload_datasets has been called and nothing has run yet
Idle ==
    /\ pc = "start"
    /\ main_exc = "none"
    /\ i = 0
    /\ create_calls = 0
    /\ libraries = 0
    /\ library_id = 0
    /\ upload_details = 0
    /\ uploads = <<>>
    /\ queue = <<>>
    /\ unfinished = 0
    /\ getters = <<>>
    /\ enqueued = <<>>
    /\ wpc = [w \in Workers |-> "uncreated"]
    /\ info = [w \in Workers |-> NoInfo]
    /\ dequeued = <<>>
    /\ waits = <<>>
    /\ renames = <<>>
    /\ done = <<>>
    /\ ready = <<>>
    /\ stopped = FALSE

\* Runs over one file with any leading bytes.
SniffInit ==
    /\ num_workers = 1
    /\ fastq_filenames \in {<<f>> : f \in SniffFiles}
    /\ path_ok = TRUE
    /\ current = MainTask
    /\ Idle
    /\ CliPassed

SniffSpec == SniffInit /\ [][Next]_vars

\* Runs over one file with any of the names the pattern matches.
NameInit ==
    /\ num_workers = 1
    /\ fastq_filenames \in {<<f>> : f \in NameFiles}
    /\ path_ok = TRUE
    /\ current = MainTask
    /\ Idle
    /\ CliPassed

NameSpec == NameInit /\ [][Next]_vars

\* ------------------------------------------------------------- __main__
pipelineVars == <<num_workers, fastq_filenames, path_ok, mainVars, queueVars,
                  workerVars, ready, stopped>>

\* parser.print_usage(...); sys.exit(1)
UsageExit ==
    /\ usage_printed' = TRUE
    /\ exit_status' = 1
    /\ cli_pc' = "exited"

\* parser.parse_args(): readable_dir rejects a datasets_path that is not a
\* directory or not readable; argparse turns the ArgumentError into a usage
\* message and exit status 2
ParseArgs ==
    /\ cli_pc = "parse_args"
    /\ IF args.datasets_path = "dir"
       THEN /\ cli_pc' = "check_credentials"
            /\ UNCHANGED <<exit_status, usage_printed>>
       ELSE /\ cli_pc' = "exited"
            /\ exit_status' = 2
            /\ usage_printed' = TRUE
    /\ UNCHANGED <<args, parsec_config, gi, pipelineVars, current>>

\* Variant: the first test needs both the URL and the key to fire.
CheckCredentials_BothNeeded ==
    /\ cli_pc = "check_credentials"
    /\ LET parsec == Truthy(args.parsec_galaxy_instance)
           url == Truthy(args.galaxy_url)
           key == Truthy(args.galaxy_key)
       IN  IF parsec /\ (key /\ url)
           THEN UsageExit
           ELSE IF ~parsec /\ ~(key /\ url)
           THEN UsageExit
           ELSE /\ cli_pc' = "get_galaxy_instance"
                /\ UNCHANGED <<exit_status, usage_printed>>
    /\ UNCHANGED <<args, parsec_config, gi, pipelineVars, current>>

\* the two tests on the credential options
CheckCredentials ==
    /\ cli_pc = "check_credentials"
    /\ LET parsec == Truthy(args.parsec_galaxy_instance)
           url == Truthy(args.galaxy_url)
           key == Truthy(args.galaxy_key)
       IN  IF parsec /\ (key \/ url)
           THEN UsageExit
           ELSE IF ~parsec /\ ~(key /\ url)
           THEN UsageExit
           ELSE /\ cli_pc' = "get_galaxy_instance"
                /\ UNCHANGED <<exit_status, usage_printed>>
    /\ UNCHANGED <<args, parsec_config, gi, pipelineVars, current>>

\* the profile get_galaxy_instance looks up: 'default' stands for the
\* value of the __default key
ProfileName ==
    IF args.parsec_galaxy_instance.value = "default"
    THEN parsec_config.default
    ELSE args.parsec_galaxy_instance.value

\* the lookups of get_galaxy_instance that raise IOError
ConfigFails ==
    \/ ~parsec_config.exists
    \/ args.parsec_galaxy_instance.value = "default"
           /\ parsec_config.default = ""
    \/ ProfileName \notin parsec_config.profiles

\* gi = get_galaxy_instance(args)
GetGalaxyInstance ==
    /\ cli_pc = "get_galaxy_instance"
    /\ IF Truthy(args.parsec_galaxy_instance)
       THEN IF ConfigFails
            THEN /\ cli_pc' = "raised"
                 /\ UNCHANGED gi
            ELSE /\ gi' = [source |-> "parsec", url |-> ProfileName,
                           key |-> ProfileName]
                 /\ cli_pc' = "asyncio_run"
       ELSE /\ gi' = [source |-> "args", url |-> args.galaxy_url.value,
                      key |-> args.galaxy_key.value]
            /\ cli_pc' = "asyncio_run"
    /\ UNCHANGED <<args, parsec_config, exit_status, usage_printed,
                   pipelineVars, current>>

\* asyncio.run(upload_datasets(...))
AsyncioRun ==
    /\ cli_pc = "asyncio_run"
    /\ cli_pc' = "running"
    /\ current' = MainTask
    /\ UNCHANGED <<args, parsec_config, exit_status, usage_printed, gi,
                   pipelineVars>>

OptionValues(values) == {NotGiven} \cup {Given(v) : v \in values}

ParsecConfigs ==
    {NoConfig} \cup
    {[exists |-> TRUE, default |-> df, profiles |-> ps] :
        df \in {"", "prod", "gone"}, ps \in {{}, {"prod"}}}

\* The program starts with any command line.
CliInit ==
    /\ args \in [parsec_galaxy_instance :
                     OptionValues({"", "default", "prod"}),
                 galaxy_url : OptionValues({"", "https://galaxy"}),
                 galaxy_key : OptionValues({"", "secret"}),
                 datasets_path : {"dir", "not_a_dir", "unreadable"}]
    /\ parsec_config \in ParsecConfigs
    /\ cli_pc = "parse_args"
    /\ exit_status = 0
    /\ usage_printed = FALSE
    /\ gi = NoClient
    /\ num_workers = 1
    /\ fastq_filenames \in {<<>>, <<GzFile>>}
    /\ path_ok = (args.datasets_path = "dir")
    /\ current = NoTask
    /\ Idle

CliNext ==
    \/ ParseArgs
    \/ CheckCredentials
    \/ GetGalaxyInstance
    \/ AsyncioRun
    \/ Next

CliSpec == CliInit /\ [][CliNext]_vars

FairCliSpec == CliSpec /\ WF_vars(CliNext)

TypeOK ==
    /\ num_workers \in -1..MaxWorkers
    /\ pc \in {"start", "validate", "create_library", "upload", "put",
               "join", "cancel", "done", "raised"}
    /\ i \in 0..Len(fastq_filenames)
    /\ unfinished \in 0..Len(fastq_filenames)
    /\ \A w \in Workers :
        wpc[w] \in {"uncreated", "new", "get", "wait", "rename", "task_done",
                    "failed", "cancelled", "shutdown"}

\* ---------------------------------------------------------------- claims
FailedWaits == {k \in DOMAIN waits : ~waits[k].ok}
FailedRenames == {k \in DOMAIN renames : ~renames[k].ok}
FailedRequests == Cardinality(FailedWaits) + Cardinality(FailedRenames)
FailedWorkers == {w \in Workers : wpc[w] = "failed"}

RenamesOf(id) == {k \in DOMAIN renames : renames[k].dataset_id = id}
OkRenamesOf(id) == {k \in RenamesOf(id) : renames[k].ok}
OkWaitsOf(id) == {k \in DOMAIN waits : waits[k].dataset_id = id /\ waits[k].ok}
DoneOf(id) == {k \in DOMAIN done : done[k] = id}
DequeuesOf(id) == {k \in DOMAIN dequeued : dequeued[k].dataset_id = id}

\* a request some wait_for_dataset or update_library_dataset call raised on
FailedOn(id) ==
    \/ \E k \in FailedWaits : waits[k].dataset_id = id
    \/ \E k \in FailedRenames : renames[k].dataset_id = id

\* waited for, renamed and marked task_done
Processed(id) ==
    /\ OkWaitsOf(id) # {}
    /\ OkRenamesOf(id) # {}
    /\ DoneOf(id) # {}

\* queue.join() has returned and no worker has been cancelled yet
Drained ==
    /\ pc = "cancel"
    /\ unfinished = 0
    /\ queue = <<>>
    /\ \A w \in Workers : wpc[w] \notin {"cancelled", "shutdown"}

\* some call of the run raised
SomethingRaised == main_exc # "none" \/ FailedRequests > 0

\* C1: with at least one worker and no call raising, the run reaches the
\* drained state (join returned, no worker cancelled yet) with every file's
\* rename request waited for, renamed and marked task_done.
C1_AllProcessedBeforeCancel ==
    <>(\/ SomethingRaised
       \/ num_workers < 1
       \/ /\ Drained
          /\ Len(enqueued) = Len(fastq_filenames)
          /\ \A k \in DOMAIN enqueued : Processed(enqueued[k].dataset_id))

C1_Witness ==
    /\ Drained
    /\ num_workers >= 2
    /\ Len(enqueued) >= 2
    /\ \A k \in DOMAIN enqueued : Processed(enqueued[k].dataset_id)

\* C2: no rename request is dequeued twice, no dataset id is the target of
\* two update_library_dataset calls, and once join has returned every
\* uploaded dataset id has been renamed exactly once.
C2_RenamedAtMostOnce ==
    /\ \A k \in DOMAIN enqueued :
        /\ Cardinality(DequeuesOf(enqueued[k].dataset_id)) <= 1
        /\ Cardinality(RenamesOf(enqueued[k].dataset_id)) <= 1
    /\ pc \in {"cancel", "done"} =>
        \A k \in OkUploads :
            /\ Cardinality(RenamesOf(uploads[k].id)) = 1
            /\ Cardinality(OkRenamesOf(uploads[k].id)) = 1

C2_Witness ==
    /\ pc = "done"
    /\ num_workers >= 2
    /\ Len(renames) >= 2
    /\ Len(renames) = Cardinality(OkUploads)

\* C3: every update_library_dataset call is for a dataset whose upload
\* succeeded, comes after wait_for_dataset returned for that library and
\* dataset, and carries the clean name of the file that upload sent.
C3_RenameAfterUploadAndWait ==
    \A r \in DOMAIN renames :
        \E u \in OkUploads :
            /\ uploads[u].id = renames[r].dataset_id
            /\ renames[r].name = CleanName(uploads[u].file.name)
            /\ \E wt \in OkWaitsOf(renames[r].dataset_id) :
                /\ waits[wt].library_id = uploads[u].library_id
                /\ waits[wt].worker = renames[r].worker

C3_Witness ==
    /\ Len(renames) >= 2
    /\ renames[1].name # renames[2].name
    /\ \E w \in Workers : wpc[w] = "task_done"

\* C4: a failed upload is the last upload call of the run; the exception
\* leaves upload_datasets, and the requests enqueued are those of the
\* uploads before it, none for the failed file.
C4_UploadFailureAborts ==
    \A k \in DOMAIN uploads :
        ~uploads[k].ok =>
            /\ k = Len(uploads)
            /\ pc = "raised"
            /\ main_exc = "upload"
            /\ Len(enqueued) = k - 1
            /\ \A e \in DOMAIN enqueued :
                enqueued[e].new_name # CleanName(uploads[k].file.name)

C4_Witness ==
    /\ Len(uploads) = 2
    /\ ~uploads[2].ok
    /\ Len(fastq_filenames) >= 3
    /\ stopped

\* C5: with a path that is not an existing directory, create_library is
\* never called, nothing is uploaded or renamed, and upload_datasets ends
\* with the I/O error.
C5_InvalidPathCreatesNothing ==
    ~path_ok =>
        /\ create_calls = 0
        /\ libraries = 0
        /\ uploads = <<>>
        /\ enqueued = <<>>
        /\ waits = <<>>
        /\ renames = <<>>
        /\ pc \in {"start", "validate", "raised"}
        /\ pc = "raised" => main_exc = "IOError"

C5_Witness ==
    /\ ~path_ok
    /\ pc = "raised"
    /\ main_exc = "IOError"
    /\ fastq_filenames # <<>>
    /\ stopped

\* C6: every request a worker dequeued is marked task_done, also when the
\* wait or the rename for it raised.
C6_FailedRequestMarkedDone ==
    \A w \in Workers :
        wpc[w] = "failed" => DoneOf(info[w].dataset_id) # {}

\* C7: a raising wait or rename ends the worker that made the call and
\* nothing else: upload_datasets and the other workers are left as they
\* were; with at least two workers and fewer failed requests than workers,
\* the run comes to rest with the queue empty and every request that did
\* not fail renamed.
Quiescent == stopped \/ (current = NoTask /\ ready = <<>>)

C7_FailureStep ==
    FailedRequests' > FailedRequests =>
        /\ pc' = pc
        /\ main_exc' = main_exc
        /\ stopped' = stopped
        /\ ready' = ready
        /\ unfinished' = unfinished
        /\ \E w \in Workers :
            /\ current = WorkerTask(w)
            /\ wpc'[w] = "failed"
            /\ \A v \in Workers \ {w} : wpc'[v] = wpc[v]

C7_AtRest ==
    (Quiescent /\ pc = "join" /\ num_workers >= 2
               /\ FailedRequests < num_workers) =>
        /\ queue = <<>>
        /\ Cardinality(FailedWorkers) = FailedRequests
        /\ \A k \in DOMAIN enqueued :
            \/ FailedOn(enqueued[k].dataset_id)
            \/ Processed(enqueued[k].dataset_id)

C7_OtherWorkersContinue ==
    /\ [][C7_FailureStep]_vars
    /\ []C7_AtRest
    /\ <>Quiescent

C7_Witness ==
    /\ Quiescent
    /\ pc = "join"
    /\ FailedRequests = 2
    /\ num_workers = 3
    /\ Len(enqueued) = 3
    /\ \E k \in DOMAIN enqueued : Processed(enqueued[k].dataset_id)

\* C8: a worker inside wait_for_dataset or update_library_dataset has given
\* up the event loop, so that another worker can dequeue meanwhile.
InFlight == {w \in Workers : wpc[w] \in {"wait", "rename", "task_done"}}

C8_CallsAreSuspensionPoints ==
    \A w \in Workers :
        (/\ wpc[w] \in {"wait", "rename"}
         /\ queue # <<>>
         /\ \E v \in Workers \ {w} : wpc[v] \in {"new", "get"})
        => current # WorkerTask(w)

\* C9: uploads go one at a time, each followed by its put: the requests
\* ever enqueued are those of the successful uploads, in order, all of them
\* at every loop boundary and all but the upload in hand between an upload
\* and its put.
C9_OneRequestPerUpload ==
    /\ pc = "put" => Cardinality(OkUploads) = Len(enqueued) + 1
    /\ pc # "put" => Cardinality(OkUploads) = Len(enqueued)
    /\ pc = "upload" => i = Len(enqueued)
    /\ \A k \in DOMAIN enqueued :
        /\ uploads[k].ok
        /\ enqueued[k].dataset_id = uploads[k].id
        /\ enqueued[k].library_id = uploads[k].library_id
    /\ \A a, b \in DOMAIN enqueued :
        a # b => enqueued[a].dataset_id # enqueued[b].dataset_id

C9_Witness ==
    /\ pc = "upload"
    /\ Len(enqueued) = 2
    /\ i = 2
    /\ Len(fastq_filenames) = 3

\* C10: the run goes IDLE, LIBRARY_CREATED, UPLOADING, DRAINING, DONE and
\* never back; a library is created at most once and exists before any
\* upload; no upload follows the entry into queue.join(); upload_datasets
\* cancels workers only once join has returned with nothing unfinished.
Phase ==
    IF pc = "done" THEN 4
    ELSE IF pc \in {"join", "cancel"} THEN 3
    ELSE IF uploads # <<>> THEN 2
    ELSE IF libraries > 0 THEN 1
    ELSE 0

C10_PhaseStep ==
    /\ Phase' >= Phase
    /\ Phase >= 3 => uploads' = uploads
    /\ libraries' >= libraries

C10_PhaseInv ==
    /\ libraries <= 1
    /\ create_calls <= 1
    /\ Phase >= 1 => libraries = 1
    /\ \A k \in DOMAIN uploads : uploads[k].library_id = 1
    /\ (\E w \in Workers : wpc[w] = "cancelled") =>
        /\ pc = "done"
        /\ unfinished = 0
        /\ queue = <<>>
        /\ \A k \in DOMAIN enqueued : Processed(enqueued[k].dataset_id)

C10_PhasesInOrder ==
    /\ [][C10_PhaseStep]_vars
    /\ []C10_PhaseInv

C10_Witness ==
    /\ pc = "done"
    /\ Phase = 4
    /\ Len(uploads) >= 2
    /\ \A w \in Workers : wpc[w] = "cancelled"
    /\ num_workers >= 1
    /\ ~stopped

InSeq(t, q) == \E k \in DOMAIN q : q[k] = t

\* C15 (as stated): when upload_datasets is about to cancel the workers,
\* every worker is suspended in queue.get() on an empty queue.
C15_AllWorkersSuspendedInGet ==
    pc = "cancel" =>
        /\ queue = <<>>
        /\ \A w \in Workers :
            wpc[w] = "get" /\ InSeq(WorkerTask(w), getters)

\* C15 (amended): when upload_datasets is about to cancel the workers, the
\* queue is empty, no request is in flight and every dequeued request has
\* been renamed and marked done; every worker is suspended in queue.get(),
\* or, when no file was uploaded, has not yet run at all.
C15_NothingInFlightAtCancel ==
    pc = "cancel" =>
        /\ queue = <<>>
        /\ unfinished = 0
        /\ InFlight = {}
        /\ \A k \in DOMAIN dequeued : Processed(dequeued[k].dataset_id)
        /\ \A w \in Workers :
            \/ wpc[w] = "get" /\ InSeq(WorkerTask(w), getters)
            \/ /\ wpc[w] = "new"
               /\ InSeq(WorkerTask(w), ready)
               /\ enqueued = <<>>

C15_Witness ==
    /\ pc = "cancel"
    /\ num_workers >= 2
    /\ Len(dequeued) >= 2
    /\ \A w \in Workers : wpc[w] = "get" /\ InSeq(WorkerTask(w), getters)

\* C16: put never takes the event loop from upload_datasets, and until
\* upload_datasets has got through its loop and entered queue.join() no
\* worker has run: nothing is dequeued, waited for or renamed.
C16_PutKeepsLoop ==
    pc = "put" => current' = MainTask

C16_NoWorkerStep ==
    pc \in {"start", "validate", "create_library", "upload", "put"} =>
        /\ current = MainTask
        /\ dequeued = <<>>
        /\ waits = <<>>
        /\ renames = <<>>
        /\ done = <<>>
        /\ \A w \in Workers : wpc[w] \in {"uncreated", "new"}

C16_NoRenameWhileUploading ==
    /\ [][C16_PutKeepsLoop]_vars
    /\ []C16_NoWorkerStep

C16_Witness ==
    /\ pc = "upload"
    /\ i = Len(fastq_filenames)
    /\ Len(queue) >= 2
    /\ num_workers >= 2
    /\ \A w \in Workers : wpc[w] = "new"

\* C17: while no wait or rename has raised, the rename calls come in the
\* order of the puts, at most one request is in flight, and the worker that
\* holds it keeps the event loop until it has marked it done.
C17_RenamesInQueueOrder ==
    FailedRequests = 0 =>
        /\ Len(renames) <= Len(enqueued)
        /\ \A k \in DOMAIN renames :
            /\ renames[k].dataset_id = enqueued[k].dataset_id
            /\ renames[k].name = enqueued[k].new_name
        /\ \A k \in DOMAIN dequeued :
            dequeued[k].dataset_id = enqueued[k].dataset_id
        /\ Cardinality(InFlight) <= 1
        /\ \A w \in InFlight : current = WorkerTask(w)
        /\ Len(dequeued) - Len(done) = Cardinality(InFlight)

C17_Witness ==
    /\ FailedRequests = 0
    /\ num_workers >= 2
    /\ Len(renames) = 3
    /\ Len(done) = 2
    /\ InFlight # {}

\* C18 (as stated): once an upload has raised, no request enqueued before
\* it is ever dequeued, waited for or renamed.
C18_EnqueuedNeverProcessed ==
    main_exc = "upload" =>
        /\ dequeued = <<>>
        /\ waits = <<>>
        /\ renames = <<>>

\* C18 (amended): when the upload of file K raises, nothing has been
\* processed up to that point, and the K-1 requests already enqueued stay
\* unprocessed only if there is no worker: with workers, they are dequeued
\* before the event loop stops, and when fewer calls raise than there are
\* workers the queue is emptied and every request has been renamed or has
\* had its wait or rename raise.
C18_RaiseStep ==
    (main_exc = "none" /\ main_exc' = "upload") =>
        /\ dequeued = <<>>
        /\ waits' = <<>>
        /\ renames' = <<>>
        /\ Len(enqueued') = Len(uploads') - 1

C18_AtStop ==
    (stopped /\ main_exc = "upload") =>
        /\ num_workers <= 0 => dequeued = <<>> /\ waits = <<>>
        /\ (num_workers >= 1 /\ FailedRequests < num_workers) =>
            /\ queue = <<>>
            /\ Len(dequeued) = Len(enqueued)
            /\ \A k \in DOMAIN enqueued :
                \/ FailedOn(enqueued[k].dataset_id)
                \/ Processed(enqueued[k].dataset_id)

C18_EnqueuedProcessedBeforeStop ==
    /\ [][C18_RaiseStep]_vars
    /\ []C18_AtStop
    /\ <>(main_exc # "upload" \/ stopped)

C18_Witness ==
    /\ stopped
    /\ main_exc = "upload"
    /\ Len(enqueued) = 2
    /\ num_workers >= 1
    /\ \A k \in DOMAIN enqueued : Processed(enqueued[k].dataset_id)

\* C19: any worker count is accepted; with num_workers <= 0 and a request
\* enqueued, queue.join() never returns and the run comes to rest in it;
\* with num_workers <= 0, a valid path, a library created and no file
\* matched, the run reaches DONE.
C19_JoinNeverReturns ==
    (num_workers <= 0 /\ enqueued # <<>>) =>
        /\ pc \notin {"cancel", "done"}
        /\ ~stopped \/ main_exc = "upload"
        /\ unfinished = Len(enqueued)

C19_NoWorkers ==
    /\ []C19_JoinNeverReturns
    /\ <>(\/ num_workers > 0
          \/ main_exc # "none"
          \/ fastq_filenames = <<>> /\ pc = "done" /\ stopped
          \/ fastq_filenames # <<>> /\ pc = "join" /\ Quiescent)

C19_Witness ==
    /\ num_workers <= 0
    /\ pc = "join"
    /\ Quiescent
    /\ ~stopped
    /\ Len(enqueued) >= 2

StartsWith(s, prefix) ==
    /\ Len(s) >= Len(prefix)
    /\ \A k \in DOMAIN prefix : s[k] = prefix[k]

EndsWith(s, suffix) ==
    /\ Len(s) >= Len(suffix)
    /\ \A k \in DOMAIN suffix : s[Len(s) - Len(suffix) + k] = suffix[k]

GzipMagic == <<31, 139>>
Bzip2Magic == <<66, 90, 104>>

\* C12: for every byte string, of any length, detect_compression gives
\* GZIP when it starts with 1F 8B, else BZIP2 when it starts with 'BZh',
\* else NONE, and nothing else.
C12_ThreeWayClassification ==
    \A k \in DOMAIN uploads :
        LET h == uploads[k].file.head
            ct == uploads[k].compression_type
        IN  /\ ct \in {"GZIP", "BZIP2", "NONE"}
            /\ ct = "GZIP" <=> StartsWith(h, GzipMagic)
            /\ ct = "BZIP2" <=>
                (~StartsWith(h, GzipMagic) /\ StartsWith(h, Bzip2Magic))
            /\ ct = "NONE" <=>
                (~StartsWith(h, GzipMagic) /\ ~StartsWith(h, Bzip2Magic))

C12_Witness ==
    /\ Len(uploads) = 1
    /\ uploads[1].file.head = <<66, 90>>
    /\ uploads[1].compression_type = "NONE"

\* C13: the new_name of a rename request is the file's name cut just
\* before its first '.fastq'.
C13_CleanNameIsPrefixBeforeFirstFastq ==
    \A k \in DOMAIN enqueued :
        LET nm == uploads[k].file.name
            c == enqueued[k].new_name
            n == Len(c)
        IN  /\ n + Len(DotFastq) <= Len(nm)
            /\ SubSeq(nm, 1, n) = c
            /\ SubSeq(nm, n + 1, n + Len(DotFastq)) = DotFastq
            /\ \A p \in 0..(n - 1) :
                SubSeq(nm, p + 1, p + Len(DotFastq)) # DotFastq
            /\ nm = SRRStem \o DotFastq \o <<".", "g", "z">> => c = SRRStem
            /\ nm = SampleStem \o DotFastq \o <<".", "b", "z", "2">>
                   => c = SampleStem
            /\ nm = SampleStem \o DotFastq => c = SampleStem

C13_Witness ==
    /\ Len(enqueued) = 1
    /\ uploads[1].file.name = SRRStem \o DotFastq \o <<".", "g", "z">>
    /\ enqueued[1].new_name = SRRStem

\* C14 (as stated): the format label of an upload follows the file's name.
C14_LabelFollowsName ==
    \A k \in DOMAIN uploads :
        LET nm == uploads[k].file.name
            format == uploads[k].format
        IN  /\ EndsWith(nm, DotFastq \o <<".", "g", "z">>)
                   => format = "fastqsanger.gz"
            /\ EndsWith(nm, DotFastq \o <<".", "b", "z", "2">>)
                   => format = "fastqsanger.bz2"
            /\ EndsWith(nm, DotFastq) => format = "fastqsanger"

\* C14 (amended): the format label of an upload follows the file's leading
\* bytes, whatever its name: 'fastqsanger.gz' for 1F 8B, 'fastqsanger.bz2'
\* for 'BZh', 'fastqsanger' for anything else.
C14_LabelFollowsContent ==
    \A k \in DOMAIN uploads :
        LET h == uploads[k].file.head
            format == uploads[k].format
        IN  format =
                IF StartsWith(h, GzipMagic) THEN "fastqsanger.gz"
                ELSE IF StartsWith(h, Bzip2Magic) THEN "fastqsanger.bz2"
                ELSE "fastqsanger"

C14_Witness ==
    /\ Len(uploads) = 1
    /\ uploads[1].file.name = GzFile.name
    /\ uploads[1].file.head = <<31, 139, 0>>
    /\ uploads[1].format = "fastqsanger.gz"
    /\ uploads[1].ok

\* the command lines the two tests are meant to reject
ProfileGiven == Truthy(args.parsec_galaxy_instance)
UrlGiven == Truthy(args.galaxy_url)
KeyGiven == Truthy(args.galaxy_key)
BadCredentials ==
    \/ ProfileGiven /\ (UrlGiven \/ KeyGiven)
    \/ ~ProfileGiven /\ ~(UrlGiven /\ KeyGiven)

CliSettled == cli_pc \in {"exited", "raised", "running"}
PipelineUntouched ==
    /\ pc = "start"
    /\ current = NoTask
    /\ create_calls = 0
    /\ uploads = <<>>

C11_Settled ==
    (CliSettled /\ args.datasets_path = "dir") =>
        IF BadCredentials
        THEN /\ cli_pc = "exited"
             /\ exit_status = 1
             /\ usage_printed
             /\ gi = NoClient
             /\ PipelineUntouched
        ELSE IF ProfileGiven /\ ConfigFails
        THEN /\ cli_pc = "raised"
             /\ exit_status = 0
             /\ ~usage_printed
             /\ gi = NoClient
             /\ PipelineUntouched
        ELSE /\ cli_pc = "running"
             /\ gi # NoClient
             /\ gi.source = (IF ProfileGiven THEN "parsec" ELSE "args")

====
